---- MODULE Spec2Model ----
(***************************************************************************)
(* Minno server: the Slack webhook pipeline (body parsing, slackVerify,    *)
(* the /slack/events and /slack/interactive handlers, the global error     *)
(* handler) and the session tables the handlers are specified to fill.     *)
(*                                                                         *)
(* One request is in flight at a time: the handlers share no in-process    *)
(* state, so requests are independent of each other.                       *)
(***************************************************************************)
EXTENDS Integers, Sequences, FiniteSets, TLC

VARIABLES
    pc,        \* position of the request in the middleware chain
    req,       \* the HTTP request as sent: path, raw body, the two headers
    reqBody,   \* req.body as left by the body parsing middleware
    now,       \* Math.floor(Date.now() / 1000) as read by slackVerify
    trace,     \* what happened for this request, in order of occurrence
    sessions,  \* rows of minno_sessions
    messages,  \* rows of conversation_messages
    workspaces, \* rows of workspaces
    tokens,    \* rows of oauth_tokens
    clock,     \* the database clock (CURRENT_TIMESTAMP)
    nextId,    \* source of fresh row ids (gen_random_uuid)
    last,      \* the store call that completed last, with its outcome
    procs,     \* the SessionService calls in progress
    oauth,     \* the OAuth callback request in flight
    checkedOut, \* clients of the pool checked out and not yet released
    migrations, \* rows of the migrations table
    applied,   \* per migration file, how often its changes were committed
    runners    \* the SessionService calls that hold a pooled client

\* the state outside the webhook pipeline and the two session tables
runVars == <<checkedOut, migrations, applied, runners>>

storeRest == <<workspaces, tokens, clock, nextId, last, procs, oauth, runVars>>

vars == <<pc, req, reqBody, now, trace, sessions, messages, storeRest>>

----------------------------------------------------------------------------
(* Values *)

Undefined == "undefined"

\* config.slack.signingSecret, and a key the server does not hold
SigningSecret == "secret"
OtherSecret == "not-the-secret"

\* the replay window of slackVerify, in seconds
Window == 300

\* length of hex(HMAC-SHA256(..)) and of the 'v0=' version tag
HexDigestLen == 64
VersionTagLen == 3

\* the clock values the model lets Date.now() return, in seconds
Times == {1000, 1001}

\* the numeric values of X-Slack-Request-Timestamp the model sends
StampValues == {699, 700, 701, 1000, 1300, 1301, 1302}

----------------------------------------------------------------------------
(* Request bodies *)

\* a nested Slack event; a field the JSON text lacks is Undefined.  item holds
\* "object" for a well-formed {type, channel, ts} item.
NoEvent ==
    [type |-> Undefined, user |-> Undefined, text |-> Undefined, ts |-> Undefined,
     channel |-> Undefined, event_ts |-> Undefined, thread_ts |-> Undefined,
     bot_id |-> Undefined, reaction |-> Undefined, item |-> Undefined]

RootMessageEvent ==
    [NoEvent EXCEPT !.type = "message", !.user = "U1", !.text = "hello", !.ts = "t1",
                    !.channel = "C1", !.event_ts = "t1"]

ReplyMessageEvent ==
    [RootMessageEvent EXCEPT !.ts = "t2", !.event_ts = "t2", !.thread_ts = "t1"]

UnknownTypeEvent ==
    [NoEvent EXCEPT !.type = "channel_created", !.user = "U1", !.channel = "C1",
                    !.event_ts = "t1"]

\* a parsed body (a JavaScript object); a property the body lacks is Undefined.
\* token .. event_time hold the JavaScript type of the property's value.
EmptyObject ==
    [type |-> Undefined, challenge |-> Undefined, event |-> NoEvent, payload |-> Undefined,
     token |-> Undefined, team_id |-> Undefined, api_app_id |-> Undefined,
     event_id |-> Undefined, event_time |-> Undefined]

UrlVerification(c) ==
    [EmptyObject EXCEPT !.type = "url_verification", !.challenge = c, !.token = "string"]

Envelope(t, ev) ==
    [EmptyObject EXCEPT !.type = t, !.event = ev, !.token = "string",
                        !.team_id = "string", !.api_app_id = "string",
                        !.event_id = "string", !.event_time = "number"]

\* the payload field of an interactive request: JSON text, or text that is not JSON
ValidPayload == "{\"type\":\"block_actions\"}"
InvalidPayload == "not json"

Interactive(p) == [EmptyObject EXCEPT !.payload = p]

BodyValues ==
    { EmptyObject,
      UrlVerification("abc123"),
      UrlVerification(Undefined),
      Envelope("event_callback", RootMessageEvent),
      Envelope("event_callback", ReplyMessageEvent),
      Envelope("event_callback", UnknownTypeEvent),
      [Envelope("event_callback", RootMessageEvent) EXCEPT !.team_id = Undefined],
      Envelope("app_rate_limited", NoEvent),
      Interactive(ValidPayload),
      Interactive(InvalidPayload) }

\* a raw body: its content type, how the text is written, and the value the
\* text denotes.  "canonical" is the text JSON.stringify writes; "spaced" is
\* the same value written with insignificant whitespace; "malformed" is text
\* that is not JSON at all.
RawJson(form, val) == [ctype |-> "json", form |-> form, val |-> val]
RawForm(val) == [ctype |-> "form", form |-> "canonical", val |-> val]

MalformedJson == RawJson("malformed", EmptyObject)

RawBodies ==
    { RawJson(f, v) : f \in {"canonical", "spaced"}, v \in BodyValues }
    \cup { RawForm(v) : v \in {EmptyObject, Interactive(ValidPayload), Interactive(InvalidPayload)} }
    \cup { MalformedJson }

\* JSON.stringify: the canonical JSON text of a value
JSONStringify(val) == RawJson("canonical", val)

----------------------------------------------------------------------------
(* Headers *)

\* X-Slack-Request-Timestamp: absent, empty, decimal digits, or other text
AbsentStamp == [k |-> "absent", n |-> 0]
EmptyStamp == [k |-> "empty", n |-> 0]
TextStamp == [k |-> "text", n |-> 0]
NumStamp(n) == [k |-> "num", n |-> n]

StampHeaders == {AbsentStamp, EmptyStamp, TextStamp} \cup { NumStamp(n) : n \in StampValues }

\* 'v0=' + hex(HMAC-SHA256(key, 'v0:' + stamp + ':' + body)).  HMAC is taken to
\* be collision free: the signature determines key, stamp and body.  flip
\* marks a signature with one bit changed; len is its length in bytes.
Sign(key, stamp, body) ==
    [k |-> "mac", key |-> key, stamp |-> stamp, body |-> body, flip |-> FALSE,
     len |-> VersionTagLen + HexDigestLen]

AbsentSig == [Sign("", AbsentStamp, MalformedJson) EXCEPT !.k = "absent", !.len = 0]
EmptySig == [Sign("", AbsentStamp, MalformedJson) EXCEPT !.k = "empty", !.len = 0]

Mutated(sig) == [sig EXCEPT !.flip = ~sig.flip]
Truncated(sig) == [sig EXCEPT !.len = sig.len - 1]

\* the bodies a sender may have signed before sending raw: raw itself, the
\* same value in the other spelling, and a body with another value
SignedBodies(raw) ==
    { raw, JSONStringify(raw.val), RawJson("spaced", raw.val),
      IF raw.val = EmptyObject THEN JSONStringify(UrlVerification("abc123"))
                               ELSE JSONStringify(EmptyObject) }

SigHeaders(stamp, raw) ==
    {AbsentSig, EmptySig}
    \cup { Sign(key, stamp, b) : key \in {SigningSecret, OtherSecret}, b \in SignedBodies(raw) }
    \cup { Mutated(Sign(SigningSecret, stamp, b)) : b \in SignedBodies(raw) }
    \cup { Truncated(Sign(SigningSecret, stamp, b)) : b \in SignedBodies(raw) }

Paths == {"/slack/events", "/slack/interactive"}

NoRequest ==
    [path |-> "none", raw |-> MalformedJson, signature |-> AbsentSig, timestamp |-> AbsentStamp]

----------------------------------------------------------------------------
(* Effects: what a middleware or handler does, in order *)

NoBody == [kind |-> "none", text |-> "", challenge |-> Undefined]
EmptyBody == [kind |-> "empty", text |-> "", challenge |-> Undefined]
TextBody(t) == [kind |-> "text", text |-> t, challenge |-> Undefined]
JsonChallenge(c) == [kind |-> "json", text |-> "", challenge |-> c]
JsonError == [kind |-> "json", text |-> "Internal Server Error", challenge |-> Undefined]

Respond(status, body) == [e |-> "response", status |-> status, body |-> body]
CallNext == [e |-> "next", status |-> 0, body |-> NoBody]
NextError == [e |-> "next(err)", status |-> 0, body |-> NoBody]
Process == [e |-> "process", status |-> 0, body |-> NoBody]
LogError == [e |-> "console.error", status |-> 0, body |-> NoBody]

IsResponse(x) == x.e = "response"
Responses(t) == SelectSeq(t, IsResponse)
Happened(t, x) == \E i \in 1..Len(t) : t[i] = x

----------------------------------------------------------------------------
(* Event schema (zod) *)

IsString(x) == x # Undefined

\* AppMentionEventSchema
AppMentionEventValid(ev) ==
    /\ ev.type = "app_mention"
    /\ IsString(ev.user) /\ IsString(ev.text) /\ IsString(ev.ts)
    /\ IsString(ev.channel) /\ IsString(ev.event_ts)

\* MessageEventSchema: user, subtype, thread_ts and bot_id are optional
MessageEventValid(ev) ==
    /\ ev.type = "message"
    /\ IsString(ev.text) /\ IsString(ev.ts)
    /\ IsString(ev.channel) /\ IsString(ev.event_ts)

\* ReactionAddedEventSchema
ReactionAddedEventValid(ev) ==
    /\ ev.type = "reaction_added"
    /\ IsString(ev.user) /\ IsString(ev.reaction)
    /\ ev.item = "object" /\ IsString(ev.event_ts)

\* SlackEventSchema: the union of the three
SlackEventValid(ev) ==
    AppMentionEventValid(ev) \/ MessageEventValid(ev) \/ ReactionAddedEventValid(ev)

\* SlackEventWrapperSchema (the optional authorizations list is left out)
SlackEventWrapperValid(body) ==
    /\ body.token = "string"
    /\ body.team_id = "string"
    /\ body.api_app_id = "string"
    /\ SlackEventValid(body.event)
    /\ body.type = "event_callback"
    /\ body.event_id = "string"
    /\ body.event_time = "number"

\* a parser that lets any nested event and any envelope type through
ParseSlackEventWrapperLenient(body) ==
    IF body.token = "string" /\ body.team_id = "string" /\ body.api_app_id = "string"
       /\ body.event_id = "string" /\ body.event_time = "number"
    THEN [ok |-> TRUE, value |-> [body EXCEPT !.challenge = Undefined, !.payload = Undefined]]
    ELSE [ok |-> FALSE, value |-> EmptyObject]

\* parseSlackEventWrapper: throws a ZodError, or returns the envelope without
\* the keys the schema does not know
ParseSlackEventWrapper(body) ==
    IF SlackEventWrapperValid(body)
    THEN [ok |-> TRUE, value |-> [body EXCEPT !.challenge = Undefined, !.payload = Undefined]]
    ELSE [ok |-> FALSE, value |-> EmptyObject]

----------------------------------------------------------------------------
(* Body parsing: express.json() then express.urlencoded() *)

\* express.json() fails on text that is not JSON and hands the error to the
\* error handling middleware; otherwise req.body is the value the text denotes
BodyParserFails(raw) == raw.ctype = "json" /\ raw.form = "malformed"

ParsedBody(raw) == raw.val

----------------------------------------------------------------------------
(* slackVerify *)

\* !signature, !timestamp: undefined and '' are falsy
Falsy(header) == header.k \in {"absent", "empty"}

\* parseInt(timestamp, 10): NaN for text that does not start with digits
ParseInt(stamp) ==
    IF stamp.k = "num" THEN [nan |-> FALSE, n |-> stamp.n] ELSE [nan |-> TRUE, n |-> 0]

Abs(x) == IF x < 0 THEN -x ELSE x

\* TooOld without Math.abs: only stamps from the past are rejected
TooOldPastOnly(time, requestTime) ==
    ~requestTime.nan /\ time - requestTime.n > Window

\* Math.abs(time - requestTime) > 300; every comparison with NaN is false
TooOld(time, requestTime) ==
    ~requestTime.nan /\ Abs(time - requestTime.n) > Window

\* the signature slackVerify computes: over JSON.stringify(req.body)
MySignature(stamp, body) == Sign(SigningSecret, stamp, JSONStringify(body))

\* a comparison of the common prefix only, which does not throw
PrefixEqual(a, b) ==
    IF [a EXCEPT !.len = b.len] = b THEN "true" ELSE "false"

\* crypto.timingSafeEqual: throws when the byte lengths differ
TimingSafeEqual(a, b) ==
    IF a.len # b.len THEN "throws" ELSE IF a = b THEN "true" ELSE "false"

\* slackVerify without the try/catch around the comparison: the exception
\* of timingSafeEqual leaves the middleware and Express hands it to next(err)
SlackVerifyNoCatch(r, body, time) ==
    IF Falsy(r.signature) \/ Falsy(r.timestamp)
    THEN <<Respond(400, TextBody("Missing Slack signature headers"))>>
    ELSE IF TooOld(time, ParseInt(r.timestamp))
    THEN <<Respond(400, TextBody("Request timestamp is too old"))>>
    ELSE LET equal == TimingSafeEqual(r.signature, MySignature(r.timestamp, body))
         IN  IF equal = "true" THEN <<CallNext>>
             ELSE IF equal = "false" THEN <<Respond(401, TextBody("Invalid signature"))>>
             ELSE <<NextError>>

SlackVerifyEffects(r, body, time) ==
    IF Falsy(r.signature) \/ Falsy(r.timestamp)
    THEN <<Respond(400, TextBody("Missing Slack signature headers"))>>
    ELSE IF TooOld(time, ParseInt(r.timestamp))
    THEN <<Respond(400, TextBody("Request timestamp is too old"))>>
    ELSE LET equal == TimingSafeEqual(r.signature, MySignature(r.timestamp, body))
         IN  IF equal = "true" THEN <<CallNext>>
             ELSE IF equal = "false" THEN <<Respond(401, TextBody("Invalid signature"))>>
             ELSE \* the catch block
                  <<Respond(401, TextBody("Invalid signature"))>>

----------------------------------------------------------------------------
(* Route handlers *)

\* a catch block that logs and hands the error on to the error handler
CatchBlockRethrows == <<LogError, NextError>>

\* the catch block of both handlers: log, send nothing, raise nothing
CatchBlock == <<LogError>>

\* the processing placeholder (console.log) and what follows when it throws
Processing(outcome) ==
    <<Process>> \o (IF outcome = "throws" THEN CatchBlock ELSE <<>>)

\* the events handler with the acknowledgment after the processing
EventsHandlerProcessFirst(body, outcome) ==
    IF body.type = "url_verification"
    THEN <<Respond(200, JsonChallenge(body.challenge))>>
    ELSE (IF body.type = "event_callback" THEN Processing(outcome) ELSE <<>>)
         \o <<Respond(200, EmptyBody)>>

\* the events handler without the return in the url_verification branch
EventsHandlerNoReturn(body, outcome) ==
    (IF body.type = "url_verification"
     THEN <<Respond(200, JsonChallenge(body.challenge))>> ELSE <<>>)
    \o <<Respond(200, EmptyBody)>>
    \o (IF body.type \in {"event_callback", "url_verification"}
        THEN Processing(outcome) ELSE <<>>)

\* router.post('/events', slackVerify, ...)
EventsHandlerEffects(body, outcome) ==
    IF body.type = "url_verification"
    THEN <<Respond(200, JsonChallenge(body.challenge))>>
    ELSE <<Respond(200, EmptyBody)>>
         \o (IF body.type = "event_callback" THEN Processing(outcome) ELSE <<>>)

\* JSON.parse(req.body.payload) throws on undefined and on text that is not JSON
JSONParseThrows(payload) == payload # ValidPayload

\* router.post('/interactive', slackVerify, ...)
InteractiveHandlerEffects(body, outcome) ==
    IF JSONParseThrows(body.payload)
    THEN CatchBlock
    ELSE <<Respond(200, EmptyBody)>> \o Processing(outcome)

\* errorHandler: always 500
ErrorHandlerEffects == <<Respond(500, JsonError)>>

----------------------------------------------------------------------------
(* Store values *)

\* SQL NULL, and what a JavaScript undefined argument becomes as a parameter
Null == "null"


\* no store call has completed yet
NoCall == [op |-> "none", args |-> <<>>, error |-> Null, rows |-> {}]

\* no SessionService call is in progress
NoProcs == <<>>

\* no OAuth callback request is in flight
NoOAuth == [provider |-> Null, code |-> Null, error |-> Null, team |-> Null,
            status |-> 0, success |-> FALSE]

\* the entries of database/migrations: n is the place of the name in the
\* order of strings, sql says the name ends in .sql, digits that it starts
\* with three digits and an underscore
MigrationsDir ==
    { [name |-> "001_initial_schema.sql", n |-> 1, sql |-> TRUE, digits |-> TRUE],
      [name |-> "002_add_indexes.sql", n |-> 2, sql |-> TRUE, digits |-> TRUE],
      [name |-> "README.md", n |-> 3, sql |-> FALSE, digits |-> FALSE] }

MigrationNames == { f.name : f \in MigrationsDir }

\* no call holds a client of the pool and no migration was applied
NoRuns ==
    /\ checkedOut = 0
    /\ migrations = {}
    /\ applied = [name \in MigrationNames |-> 0]
    /\ runners = <<>>

----------------------------------------------------------------------------
(* The state machine *)

Init ==
    /\ pc = "idle"
    /\ req = NoRequest
    /\ reqBody = EmptyObject
    /\ now = 0
    /\ trace = <<>>
    /\ sessions = {}
    /\ messages = {}
    /\ workspaces = {}
    /\ tokens = {}
    /\ clock = 0
    /\ nextId = 1
    /\ last = NoCall
    /\ procs = NoProcs
    /\ oauth = NoOAuth /\ NoRuns

\* a client sends a request
NewRequest ==
    /\ pc = "idle"
    /\ \E path \in Paths, raw \in RawBodies, stamp \in StampHeaders :
         \E sig \in SigHeaders(stamp, raw) :
            req' = [path |-> path, raw |-> raw, signature |-> sig, timestamp |-> stamp]
    /\ pc' = "bodyParser"
    /\ reqBody' = EmptyObject
    /\ trace' = <<>>
    /\ UNCHANGED <<now, sessions, messages, storeRest>>

\* app.use(express.json()); app.use(express.urlencoded({ extended: true }))
BodyParser ==
    /\ pc = "bodyParser"
    /\ IF BodyParserFails(req.raw)
       THEN /\ trace' = trace \o <<NextError>>
            /\ pc' = "errorHandler"
            /\ UNCHANGED reqBody
       ELSE /\ reqBody' = ParsedBody(req.raw)
            /\ pc' = "slackVerify"
            /\ UNCHANGED trace
    /\ UNCHANGED <<req, now, sessions, messages, storeRest>>

SlackVerify ==
    /\ pc = "slackVerify"
    /\ \E time \in Times :
         LET effects == SlackVerifyEffects(req, reqBody, time)
         IN  /\ now' = time
             /\ trace' = trace \o effects
             /\ pc' = IF Happened(effects, CallNext) THEN "handler" ELSE "done"
    /\ UNCHANGED <<req, reqBody, sessions, messages, storeRest>>

AfterHandler(effects) == IF Happened(effects, NextError) THEN "errorHandler" ELSE "done"

EventsHandler ==
    /\ pc = "handler"
    /\ req.path = "/slack/events"
    /\ \E outcome \in {"returns", "throws"} :
         LET effects == EventsHandlerEffects(reqBody, outcome)
         IN  /\ trace' = trace \o effects
             /\ pc' = AfterHandler(effects)
    /\ UNCHANGED <<req, reqBody, now, sessions, messages, storeRest>>

InteractiveHandler ==
    /\ pc = "handler"
    /\ req.path = "/slack/interactive"
    /\ \E outcome \in {"returns", "throws"} :
         LET effects == InteractiveHandlerEffects(reqBody, outcome)
         IN  /\ trace' = trace \o effects
             /\ pc' = AfterHandler(effects)
    /\ UNCHANGED <<req, reqBody, now, sessions, messages, storeRest>>

ErrorHandler ==
    /\ pc = "errorHandler"
    /\ trace' = trace \o ErrorHandlerEffects
    /\ pc' = "done"
    /\ UNCHANGED <<req, reqBody, now, sessions, messages, storeRest>>

\* the exchange is over: the response was delivered, or the client gave up
\* waiting for one; nothing of the request outlives it in the process
RequestEnds ==
    /\ pc = "done"
    /\ pc' = "idle"
    /\ req' = NoRequest
    /\ reqBody' = EmptyObject
    /\ now' = 0
    /\ trace' = <<>>
    /\ UNCHANGED <<sessions, messages, storeRest>>

Next ==
    \/ NewRequest
    \/ BodyParser
    \/ SlackVerify
    \/ EventsHandler
    \/ InteractiveHandler
    \/ ErrorHandler
    \/ RequestEnds

Spec == Init /\ [][Next]_vars

----------------------------------------------------------------------------
(* Properties *)

\* slackVerify has run on the request in flight
VerifyRan == pc \in {"handler", "done"} /\ ~BodyParserFails(req.raw)

\* slackVerify has called next() for the request in flight
Verified == Happened(trace, CallNext)

HeadersPresent == ~Falsy(req.signature) /\ ~Falsy(req.timestamp)

\* the timestamp header is a number within the window of the time slackVerify read
Fresh == req.timestamp.k = "num" /\ Abs(now - req.timestamp.n) <= Window

\* the signature Slack sends: over the raw body as sent
SlackSignature == Sign(SigningSecret, req.timestamp, req.raw)

Statuses(t) == { t[i].status : i \in { j \in 1..Len(t) : IsResponse(t[j]) } }

\* C1: a fresh request signed over its raw body passes slackVerify: next() is
\* called and no 4xx is sent, on /slack/events and on /slack/interactive
C1_RawBodySignaturePasses ==
    (VerifyRan /\ Fresh /\ req.signature = SlackSignature)
        => (Happened(trace, CallNext) /\ Statuses(trace) \cap (400..499) = {})

\* the signature that verifies: over the timestamp header as received and the
\* re-serialized parsed body
ExpectedSignature == Sign(SigningSecret, req.timestamp, JSONStringify(req.raw.val))

\* the request got as far as the signature comparison: both headers are
\* there and the timestamp is not a number outside the window
ReachedComparison ==
    /\ VerifyRan
    /\ HeadersPresent
    /\ ~(req.timestamp.k = "num" /\ Abs(now - req.timestamp.n) > Window)

C3_StaleOrMissingIs400 ==
    (/\ VerifyRan
     /\ \/ req.signature.k = "absent"
        \/ req.timestamp.k = "absent"
        \/ (req.timestamp.k = "num" /\ Abs(now - req.timestamp.n) > Window))
        => /\ Statuses(trace) = {400}
           /\ Len(Responses(trace)) = 1
           /\ ~Happened(trace, CallNext)

\* a request stamped in the future beyond the window, carrying the very
\* signature slackVerify would compute, has been answered 400
C3_Witness ==
    /\ pc = "done"
    /\ req.timestamp.k = "num"
    /\ req.timestamp.n - now > Window
    /\ req.signature = MySignature(req.timestamp, reqBody)
    /\ Statuses(trace) = {400}

\* C4: on /slack/events, for a body that is not url_verification, the 200
\* empty acknowledgment precedes every processing step, processing happens
\* only for event_callback, and the handler always sends the acknowledgment
C4_AckBeforeProcessing ==
    (req.path = "/slack/events")
        => /\ \A i \in 1..Len(trace) :
                trace[i] = Process
                    => /\ \E j \in 1..(i - 1) : trace[j] = Respond(200, EmptyBody)
                       /\ reqBody.type = "event_callback"
           /\ (pc = "done" /\ Verified /\ reqBody.type # "url_verification")
                => Responses(trace) = <<Respond(200, EmptyBody)>>

\* an event_callback was acknowledged and then processed
C4_Witness ==
    /\ pc = "done"
    /\ req.path = "/slack/events"
    /\ trace = <<CallNext, Respond(200, EmptyBody), Process>>

\* the processing step was followed by something: it raised an error
ProcessingFailed == \E i \in 1..Len(trace) : trace[i] = Process /\ i < Len(trace)

\* C5: once the 200 acknowledgment is sent, an error raised by the processing
\* is only logged: the acknowledgment stays the only response and the error
\* is not handed to the error handler
C5_ProcessingErrorOnlyLogged ==
    ProcessingFailed
        => /\ Responses(trace) = <<Respond(200, EmptyBody)>>
           /\ Happened(trace, LogError)
           /\ ~Happened(trace, NextError)
           /\ pc # "errorHandler"

\* the processing of an acknowledged interactive request failed and the request is over
C5_Witness ==
    /\ pc = "done"
    /\ req.path = "/slack/interactive"
    /\ trace = <<CallNext, Respond(200, EmptyBody), Process, LogError>>

\* C6: a verified url_verification request on /slack/events is answered 200
\* with the received challenge, is never processed, and no step taken for it
\* writes to the database
C6_HandshakeEchoIsTerminal ==
    /\ [](  (req.path = "/slack/events" /\ Verified /\ pc = "done"
                /\ req.raw.val.type = "url_verification")
            => /\ Responses(trace) = <<Respond(200, JsonChallenge(req.raw.val.challenge))>>
               /\ ~Happened(trace, Process))
    /\ [][ (req.path = "/slack/events" /\ req.raw.val.type = "url_verification")
            => UNCHANGED <<sessions, messages>> ]_vars

\* the challenge abc123 was echoed
C6_Witness ==
    /\ pc = "done"
    /\ req.path = "/slack/events"
    /\ req.raw.val = UrlVerification("abc123")
    /\ trace = <<CallNext, Respond(200, JsonChallenge("abc123"))>>

\* C7: a verified /slack/events request whose body is not a schema-valid
\* envelope is answered 4xx, never 200, and is never processed
C7_InvalidEnvelopeRejected ==
    (/\ req.path = "/slack/events" /\ Verified /\ pc = "done"
     /\ reqBody.type # "url_verification"
     /\ ~ParseSlackEventWrapper(reqBody).ok)
        => /\ Len(Responses(trace)) = 1
           /\ Statuses(trace) \subseteq 400..499
           /\ ~Happened(trace, Process)

\* C8: every verified /slack/interactive request gets exactly one response,
\* 200 with an empty body, whatever its payload
C8_InteractiveAlwaysAcknowledged ==
    (req.path = "/slack/interactive" /\ Verified /\ pc = "done")
        => Responses(trace) = <<Respond(200, EmptyBody)>>

\* C9: every response to a webhook request has status 200, 400 or 401
C9_NeverA500 == Statuses(trace) \subseteq {200, 400, 401}

\* the (channel, thread) a message event belongs to
ThreadOf(ev) == IF ev.thread_ts # Undefined THEN ev.thread_ts ELSE ev.ts

SessionsFor(ev) ==
    { s \in sessions : s.slackChannelId = ev.channel /\ s.slackThreadTs = ThreadOf(ev) }

\* C10: when the handling of an acknowledged event_callback with a message
\* event is over, exactly one session row exists for its (channel, thread),
\* with exactly one message
C10_MessageEventStored ==
    (/\ req.path = "/slack/events" /\ Verified /\ pc = "done"
     /\ reqBody.type = "event_callback"
     /\ reqBody.event.type = "message"
     /\ Responses(trace) = <<Respond(200, EmptyBody)>>)
        => /\ Cardinality(SessionsFor(reqBody.event)) = 1
           /\ \A s \in SessionsFor(reqBody.event) :
                Cardinality({ m \in messages : m.sessionId = s.id }) = 1

----------------------------------------------------------------------------
(* Session store: argument values *)

\* number of store calls a behaviour makes; the database clock stops there
MaxClock == 2

TeamIds == {"T1", "T2"}
TeamNames == {"Acme", "Acme Corp"}
NotionWorkspaceIds == {Null, "notion-1", "notion-2"}

ChannelId == "C1"
ThreadIds == {"t1", "t2"}

SessionStatuses == {"active", "completed", "failed", "archived"}

\* the optional data argument of upsertMinnoSession; an omitted property is Null
NoData == [notionProjectId |-> Null, notionTaskId |-> Null, context |-> Null, status |-> Null]

SessionData ==
    { NoData,
      [NoData EXCEPT !.notionProjectId = "P1"],
      [NoData EXCEPT !.notionProjectId = "P2", !.notionTaskId = "K1"],
      [NoData EXCEPT !.context = "{\"a\":1}"],
      [NoData EXCEPT !.context = "{}", !.notionTaskId = "K2"],
      [NoData EXCEPT !.context = "{\"b\":2}", !.status = "completed"],
      [NoData EXCEPT !.status = "failed"],
      [NoData EXCEPT !.status = "archived"],
      [NoData EXCEPT !.status = "active"] }

\* the ids a caller may pass for a table: those of its rows and one no row has
IdArgs(rows) == { r.id : r \in rows } \cup {nextId}

----------------------------------------------------------------------------
(* Session store: the SQL statements *)

\* COALESCE(a, b)
Coalesce(a, b) == IF a # Null THEN a ELSE b

\* what a statement does: the error it raises (Null when it succeeds), the
\* table afterwards, and the rows it returns
Outcome(error, table, returned) == [error |-> error, table |-> table, returned |-> returned]

\* an upsert of workspaces that inserts without looking for a conflict
InsertWorkspaceAlways(rows, id, t, slackTeamId, slackTeamName, notionWorkspaceId) ==
    LET new == [id |-> id, slackTeamId |-> slackTeamId, slackTeamName |-> slackTeamName,
                notionWorkspaceId |-> notionWorkspaceId, createdAt |-> t, updatedAt |-> t]
    IN  Outcome(Null, rows \cup {new}, {new})

\* an upsert of workspaces whose update takes the link parameter as it comes
UpsertWorkspaceNoCoalesce(rows, id, t, slackTeamId, slackTeamName, notionWorkspaceId) ==
    LET old == { w \in rows : w.slackTeamId = slackTeamId }
        new == IF old = {}
               THEN {[id |-> id, slackTeamId |-> slackTeamId, slackTeamName |-> slackTeamName,
                      notionWorkspaceId |-> notionWorkspaceId, createdAt |-> t, updatedAt |-> t]}
               ELSE { [w EXCEPT !.slackTeamName = slackTeamName,
                                !.notionWorkspaceId = notionWorkspaceId,
                                !.updatedAt = t] : w \in old }
    IN  Outcome(Null, (rows \ old) \cup new, new)

\* INSERT INTO workspaces ... ON CONFLICT (slack_team_id) DO UPDATE SET ...
\* RETURNING *, executed at time t with id as the fresh default of the id column
UpsertWorkspaceStatement(rows, id, t, slackTeamId, slackTeamName, notionWorkspaceId) ==
    LET old == { w \in rows : w.slackTeamId = slackTeamId }
        new == IF old = {}
               THEN {[id |-> id, slackTeamId |-> slackTeamId, slackTeamName |-> slackTeamName,
                      notionWorkspaceId |-> notionWorkspaceId, createdAt |-> t, updatedAt |-> t]}
               ELSE { [w EXCEPT !.slackTeamName = slackTeamName,
                                !.notionWorkspaceId = Coalesce(notionWorkspaceId, w.notionWorkspaceId),
                                !.updatedAt = t] : w \in old }
    IN  Outcome(Null, (rows \ old) \cup new, new)

\* data?.status || 'active'
StatusParam(data) == IF data.status = Null THEN "active" ELSE data.status

\* data?.context ? JSON.stringify(data.context) : null; every object is truthy
ContextParam(data) == data.context

\* the row the INSERT of upsertMinnoSession proposes
ProposedSession(id, t, workspaceId, channel, thread, project, task, context, status) ==
    [id |-> id, workspaceId |-> workspaceId, slackChannelId |-> channel,
     slackThreadTs |-> thread, notionProjectId |-> project, notionTaskId |-> task,
     context |-> context, status |-> status, createdAt |-> t, updatedAt |-> t]

\* an upsert of minno_sessions that inserts without looking for a conflict
InsertSessionAlways(rows, wsRows, id, t, workspaceId, channel, thread, project, task, context, status) ==
    LET new == ProposedSession(id, t, workspaceId, channel, thread, project, task, context, status)
    IN  IF \E w \in wsRows : w.id = workspaceId
        THEN Outcome(Null, rows \cup {new}, {new})
        ELSE Outcome("foreign_key_violation", rows, {})

\* an upsert of minno_sessions whose update takes the parameters as they come
UpsertSessionNoCoalesce(rows, wsRows, id, t, workspaceId, channel, thread, project, task, context, status) ==
    LET old == { r \in rows : r.slackChannelId = channel /\ r.slackThreadTs = thread }
    IN  IF old # {}
        THEN LET new == { [r EXCEPT !.notionProjectId = project,
                                    !.notionTaskId = task,
                                    !.context = context,
                                    !.status = Coalesce(status, r.status),
                                    !.updatedAt = t] : r \in old }
             IN  Outcome(Null, (rows \ old) \cup new, new)
        ELSE InsertSessionAlways(rows, wsRows, id, t, workspaceId, channel, thread,
                                 project, task, context, status)

\* INSERT INTO minno_sessions ... ON CONFLICT (slack_channel_id, slack_thread_ts)
\* DO UPDATE SET ... RETURNING *.  The foreign key to workspaces is checked for
\* a row that is inserted; on a conflict nothing is inserted and the stored
\* workspace_id stays.
UpsertSessionStatement(rows, wsRows, id, t, workspaceId, channel, thread, project, task, context, status) ==
    LET old == { r \in rows : r.slackChannelId = channel /\ r.slackThreadTs = thread }
    IN  IF old # {}
        THEN LET new == { [r EXCEPT !.notionProjectId = Coalesce(project, r.notionProjectId),
                                    !.notionTaskId = Coalesce(task, r.notionTaskId),
                                    !.context = Coalesce(context, r.context),
                                    !.status = Coalesce(status, r.status),
                                    !.updatedAt = t] : r \in old }
             IN  Outcome(Null, (rows \ old) \cup new, new)
        ELSE LET new == ProposedSession(id, t, workspaceId, channel, thread,
                                        project, task, context, status)
             IN  IF \E w \in wsRows : w.id = workspaceId
                 THEN Outcome(Null, rows \cup {new}, {new})
                 ELSE Outcome("foreign_key_violation", rows, {})

\* an update of the status that touches every session
UpdateStatusOfAll(rows, t, sessionId, status) ==
    LET new == { [r EXCEPT !.status = status, !.updatedAt = t] : r \in rows }
    IN  Outcome(Null, new, new)

\* UPDATE minno_sessions SET status = $2, updated_at = CURRENT_TIMESTAMP
\* WHERE id = $1 RETURNING *
UpdateStatusStatement(rows, t, sessionId, status) ==
    LET old == { r \in rows : r.id = sessionId }
        new == { [r EXCEPT !.status = status, !.updatedAt = t] : r \in old }
    IN  Outcome(Null, (rows \ old) \cup new, new)

\* updateSessionStatus: 'Session not found' when the statement returns no row
UpdateSessionStatusResult(rows, t, sessionId, status) ==
    LET out == UpdateStatusStatement(rows, t, sessionId, status)
    IN  IF out.returned = {} THEN [out EXCEPT !.error = "Session not found"] ELSE out

\* INSERT INTO conversation_messages ... RETURNING *
InsertMessageStatement(rows, sessionRows, id, t, sessionId, role, content, metadata, slackMessageTs) ==
    LET new == [id |-> id, sessionId |-> sessionId, role |-> role, content |-> content,
                metadata |-> metadata, timestamp |-> t, slackMessageTs |-> slackMessageTs]
    IN  IF \E r \in sessionRows : r.id = sessionId
        THEN Outcome(Null, rows \cup {new}, {new})
        ELSE Outcome("foreign_key_violation", rows, {})

----------------------------------------------------------------------------
(* Session store: oauth_tokens *)

Providers == {"slack", "notion"}

\* the columns of oauth_tokens in schema.sql and 001_initial_schema.sql
OAuthTokensColumns ==
    {"id", "workspace_id", "provider", "access_token_encrypted", "refresh_token_encrypted",
     "expires_at", "scopes", "metadata", "created_at", "updated_at"}

\* an OAuthToken object; a property it lacks is Undefined
SlackToken(accessToken, teamId) ==
    [accessToken |-> accessToken, refreshToken |-> Undefined, expiresAt |-> Undefined,
     scope |-> "chat:write,commands", botUserId |-> "B1", teamId |-> teamId]

OAuthTokens == { SlackToken("xoxb-1", "T1"), SlackToken("xoxb-2", "T1") }

\* !x for a string that may be missing: undefined and '' are falsy
FalsyString(x) == x \in {Undefined, ""}

\* x || null
OrNull(x) == IF FalsyString(x) THEN Null ELSE x

\* the row an INSERT builds from the values it names: the other columns take
\* their defaults
TokenRow(values, id, t) ==
    [c \in OAuthTokensColumns |->
        IF c \in DOMAIN values THEN values[c]
        ELSE IF c = "id" THEN id
        ELSE IF c \in {"created_at", "updated_at"} THEN t
        ELSE Null]

\* INSERT INTO oauth_tokens (...) VALUES (...), as in seed.sql
InsertTokenStatement(rows, wsRows, id, t, values) ==
    IF ~(DOMAIN values \subseteq OAuthTokensColumns)
    THEN Outcome("undefined_column", rows, {})
    ELSE LET new == TokenRow(values, id, t)
         IN  IF new.access_token_encrypted = Null \/ new.provider = Null
             THEN Outcome("not_null_violation", rows, {})
             ELSE IF ~(\E w \in wsRows : w.id = new.workspace_id)
             THEN Outcome("foreign_key_violation", rows, {})
             ELSE IF \E r \in rows : r.workspace_id = new.workspace_id /\ r.provider = new.provider
             THEN Outcome("unique_violation", rows, {})
             ELSE Outcome(Null, rows \cup {new}, {new})

\* the values the statement of storeOAuthToken names
StoreOAuthTokenValues(provider, workspaceId, token) ==
    [provider |-> provider, workspace_id |-> workspaceId,
     access_token |-> token.accessToken,
     refresh_token |-> OrNull(token.refreshToken),
     expires_at |-> OrNull(token.expiresAt),
     scope |-> OrNull(token.scope),
     bot_user_id |-> OrNull(token.botUserId),
     team_id |-> OrNull(token.teamId)]

\* INSERT INTO oauth_tokens (provider, workspace_id, access_token, ...)
\* ON CONFLICT (provider, workspace_id) DO UPDATE SET ...: the statement is
\* rejected when it names a column the table does not have
StoreOAuthTokenStatement(rows, wsRows, id, t, provider, workspaceId, token) ==
    LET values == StoreOAuthTokenValues(provider, workspaceId, token)
        old == { r \in rows : r.provider = provider /\ r.workspace_id = workspaceId }
    IN  IF ~(DOMAIN values \subseteq OAuthTokensColumns)
        THEN Outcome("undefined_column", rows, {})
        ELSE IF old # {}
        THEN LET new == { [c \in OAuthTokensColumns |->
                             IF c \in DOMAIN values THEN values[c]
                             ELSE IF c = "updated_at" THEN t ELSE r[c]] : r \in old }
             IN  Outcome(Null, (rows \ old) \cup new, {})
        ELSE InsertTokenStatement(rows, wsRows, id, t, values)

\* row.access_token and the like: undefined when the row has no such column
Field(row, c) == IF c \in DOMAIN row THEN row[c] ELSE Undefined

NoToken == [found |-> FALSE, accessToken |-> Undefined, refreshToken |-> Undefined,
            expiresAt |-> Undefined, scope |-> Undefined, botUserId |-> Undefined,
            teamId |-> Undefined]

\* getOAuthToken: null (found = FALSE) when no row matches
GetOAuthTokenResult(rows, provider, workspaceId) ==
    LET found == { r \in rows : r.provider = provider /\ r.workspace_id = workspaceId }
    IN  IF found = {} THEN NoToken
        ELSE LET row == CHOOSE r \in found : TRUE
             IN  [found |-> TRUE,
                  accessToken |-> Field(row, "access_token"),
                  refreshToken |-> Field(row, "refresh_token"),
                  expiresAt |-> Field(row, "expires_at"),
                  scope |-> Field(row, "scope"),
                  botUserId |-> Field(row, "bot_user_id"),
                  teamId |-> Field(row, "team_id")]

----------------------------------------------------------------------------
(* Session store: deletes and the cascading foreign keys *)

Database(w, t, s, m) == [workspaces |-> w, tokens |-> t, sessions |-> s, messages |-> m]

\* the messages whose session is among rows
MessagesOf(m, rows) == { x \in m : \E r \in rows : r.id = x.sessionId }

\* a delete of a workspace that leaves the referencing rows
DeleteWorkspaceNoCascade(db, id) ==
    [db EXCEPT !.workspaces = { w \in db.workspaces : w.id # id }]

\* DELETE FROM workspaces WHERE id = ..: oauth_tokens.workspace_id and
\* minno_sessions.workspace_id are ON DELETE CASCADE, and so is
\* conversation_messages.session_id
DeleteWorkspaceStatement(db, id) ==
    LET keptSessions == { r \in db.sessions : r.workspaceId # id }
    IN  Database({ w \in db.workspaces : w.id # id },
                 { k \in db.tokens : k.workspace_id # id },
                 keptSessions,
                 MessagesOf(db.messages, keptSessions))

\* DELETE FROM minno_sessions WHERE id = ..
DeleteSessionStatement(db, id) ==
    LET keptSessions == { r \in db.sessions : r.id # id }
    IN  [db EXCEPT !.sessions = keptSessions,
                   !.messages = MessagesOf(db.messages, keptSessions)]

----------------------------------------------------------------------------
(* OAuth callback *)

CallbackProviders == {"slack", "notion", "github"}
CallbackCodes == {Undefined, "good-code", "bad-code"}
CallbackErrors == {Undefined, "access_denied"}

\* OAuthService.handleCallback: the code is exchanged (the exchange of a code
\* Slack does not accept throws), the token is stored under the team id, and
\* the token is returned; Notion is not implemented
HandleCallback(provider, code, team, rows, wsRows, id, t) ==
    IF provider = "slack"
    THEN IF code # "good-code"
         THEN [threw |-> TRUE, table |-> rows]
         ELSE LET token == SlackToken("xoxb-1", team)
                  workspaceId == IF FalsyString(token.teamId) THEN "" ELSE token.teamId
                  out == StoreOAuthTokenStatement(rows, wsRows, id, t, provider, workspaceId, token)
              IN  [threw |-> out.error # Null, table |-> out.table]
    ELSE [threw |-> TRUE, table |-> rows]

\* GET /oauth/:provider/callback: the status and the success flag of the
\* response, and the oauth_tokens table afterwards
CallbackRoute(provider, code, error, team, rows, wsRows, id, t) ==
    IF provider \notin {"slack", "notion"}
    THEN [status |-> 400, success |-> FALSE, table |-> rows]
    ELSE IF ~FalsyString(error)
    THEN [status |-> 400, success |-> FALSE, table |-> rows]
    ELSE IF FalsyString(code)
    THEN [status |-> 400, success |-> FALSE, table |-> rows]
    ELSE LET result == HandleCallback(provider, code, team, rows, wsRows, id, t)
         IN  IF result.threw
             THEN [status |-> 500, success |-> FALSE, table |-> result.table]
             ELSE [status |-> 200, success |-> TRUE, table |-> result.table]

----------------------------------------------------------------------------
(* The session store as a state machine: one call of SessionService, one SQL
   statement or one OAuth callback per step.  CURRENT_TIMESTAMP is clock + 1:
   calls made one after the other see strictly increasing times. *)

webhookVars == <<pc, req, reqBody, now, trace>>

Call(op, args, out) == [op |-> op, args |-> args, error |-> out.error, rows |-> out.returned]

\* ids are fresh: the id after those handed out when an insert took nextId
Fresh1(before, after) == IF \E r \in after : r.id = nextId /\ r \notin before THEN nextId + 1 ELSE nextId

\* the database the seed script leaves, cut down to one row per table
SeedWorkspace ==
    [id |-> 1, slackTeamId |-> "T1", slackTeamName |-> "Acme",
     notionWorkspaceId |-> "notion-1", createdAt |-> 0, updatedAt |-> 0]
SeedTokenValues(workspaceId, provider) ==
    [workspace_id |-> workspaceId, provider |-> provider,
     access_token_encrypted |-> "encrypted", refresh_token_encrypted |-> Null,
     expires_at |-> Null, scopes |-> "chat:write", metadata |-> "{}"]
SeedToken == TokenRow(SeedTokenValues(1, "slack"), 2, 0)
SeedSession ==
    [ProposedSession(3, 0, 1, ChannelId, "t1", "P1", "K1", "{\"a\":1}", "completed")
        EXCEPT !.updatedAt = 0]
SeedMessage ==
    [id |-> 4, sessionId |-> 3, role |-> "user", content |-> "hello",
     metadata |-> Null, timestamp |-> 0, slackMessageTs |-> "t1"]
SeedNextId == 5

InitStore ==
    /\ pc = "idle" /\ req = NoRequest /\ reqBody = Undefined /\ now = 1000 /\ trace = <<>>
    /\ clock = 0 /\ last = NoCall /\ procs = NoProcs /\ oauth = NoOAuth /\ NoRuns
    /\ \/ /\ workspaces = {} /\ tokens = {} /\ sessions = {} /\ messages = {}
          /\ nextId = 1
       \/ /\ workspaces = {SeedWorkspace} /\ tokens = {SeedToken}
          /\ sessions = {SeedSession} /\ messages = {SeedMessage}
          /\ nextId = SeedNextId

UpsertWorkspace ==
    /\ clock < MaxClock
    /\ \E slackTeamId \in TeamIds, slackTeamName \in TeamNames, link \in NotionWorkspaceIds :
          LET out == UpsertWorkspaceStatement(workspaces, nextId, clock + 1,
                                              slackTeamId, slackTeamName, link)
          IN  /\ workspaces' = out.table
              /\ nextId' = Fresh1(workspaces, out.table)
              /\ last' = Call("upsertWorkspace",
                              [slackTeamId |-> slackTeamId, slackTeamName |-> slackTeamName,
                               notionWorkspaceId |-> link], out)
    /\ clock' = clock + 1
    /\ UNCHANGED <<webhookVars, runVars, sessions, messages, tokens, procs, oauth>>

UpsertMinnoSession ==
    /\ clock < MaxClock
    /\ \E workspaceId \in IdArgs(workspaces), thread \in ThreadIds, data \in SessionData :
          LET out == UpsertSessionStatement(sessions, workspaces, nextId, clock + 1,
                         workspaceId, ChannelId, thread, data.notionProjectId,
                         data.notionTaskId, ContextParam(data), StatusParam(data))
          IN  /\ sessions' = out.table
              /\ nextId' = Fresh1(sessions, out.table)
              /\ last' = Call("upsertMinnoSession",
                              [workspaceId |-> workspaceId, slackChannelId |-> ChannelId,
                               slackThreadTs |-> thread, data |-> data], out)
    /\ clock' = clock + 1
    /\ UNCHANGED <<webhookVars, runVars, workspaces, messages, tokens, procs, oauth>>

UpdateSessionStatus ==
    /\ clock < MaxClock
    /\ \E sessionId \in IdArgs(sessions), status \in SessionStatuses :
          LET out == UpdateSessionStatusResult(sessions, clock + 1, sessionId, status)
          IN  /\ sessions' = out.table
              /\ last' = Call("updateSessionStatus",
                              [sessionId |-> sessionId, status |-> status], out)
    /\ clock' = clock + 1
    /\ UNCHANGED <<webhookVars, runVars, workspaces, messages, tokens, nextId, procs, oauth>>

AddMessage ==
    /\ clock < MaxClock
    /\ \E sessionId \in IdArgs(sessions) :
          LET out == InsertMessageStatement(messages, sessions, nextId, clock + 1,
                                            sessionId, "user", "hello", Null, Null)
          IN  /\ messages' = out.table
              /\ nextId' = Fresh1(messages, out.table)
              /\ last' = Call("addMessage", [sessionId |-> sessionId], out)
    /\ clock' = clock + 1
    /\ UNCHANGED <<webhookVars, runVars, workspaces, sessions, tokens, procs, oauth>>

StoreOAuthToken ==
    /\ clock < MaxClock
    /\ \E provider \in Providers, workspaceId \in IdArgs(workspaces), token \in OAuthTokens :
          LET out == StoreOAuthTokenStatement(tokens, workspaces, nextId, clock + 1,
                                              provider, workspaceId, token)
          IN  /\ tokens' = out.table
              /\ nextId' = Fresh1(tokens, out.table)
              /\ last' = Call("storeOAuthToken",
                              [provider |-> provider, workspaceId |-> workspaceId,
                               token |-> token], out)
    /\ clock' = clock + 1
    /\ UNCHANGED <<webhookVars, runVars, workspaces, sessions, messages, procs, oauth>>

GetOAuthToken ==
    /\ clock < MaxClock
    /\ \E provider \in Providers, workspaceId \in IdArgs(workspaces) :
          last' = Call("getOAuthToken",
                       [provider |-> provider, workspaceId |-> workspaceId],
                       Outcome(Null, tokens, {GetOAuthTokenResult(tokens, provider, workspaceId)}))
    /\ clock' = clock + 1
    /\ UNCHANGED <<webhookVars, runVars, workspaces, sessions, messages, tokens, nextId, procs, oauth>>

\* the INSERT INTO oauth_tokens of the seed script, for any workspace
InsertSeedToken ==
    /\ clock < MaxClock
    /\ \E provider \in Providers, workspaceId \in IdArgs(workspaces) :
          LET out == InsertTokenStatement(tokens, workspaces, nextId, clock + 1,
                                          SeedTokenValues(workspaceId, provider))
          IN  /\ tokens' = out.table
              /\ nextId' = Fresh1(tokens, out.table)
              /\ last' = Call("insertSeedToken",
                              [provider |-> provider, workspaceId |-> workspaceId], out)
    /\ clock' = clock + 1
    /\ UNCHANGED <<webhookVars, runVars, workspaces, sessions, messages, procs, oauth>>

DeleteWorkspace ==
    /\ clock < MaxClock
    /\ \E id \in IdArgs(workspaces) :
          LET db == DeleteWorkspaceStatement(Database(workspaces, tokens, sessions, messages), id)
          IN  /\ workspaces' = db.workspaces
              /\ tokens' = db.tokens
              /\ sessions' = db.sessions
              /\ messages' = db.messages
              /\ last' = Call("deleteWorkspace", [id |-> id], Outcome(Null, {}, {}))
    /\ clock' = clock + 1
    /\ UNCHANGED <<webhookVars, runVars, nextId, procs, oauth>>

DeleteSession ==
    /\ clock < MaxClock
    /\ \E id \in IdArgs(sessions) :
          LET db == DeleteSessionStatement(Database(workspaces, tokens, sessions, messages), id)
          IN  /\ sessions' = db.sessions
              /\ messages' = db.messages
              /\ last' = Call("deleteSession", [id |-> id], Outcome(Null, {}, {}))
    /\ clock' = clock + 1
    /\ UNCHANGED <<webhookVars, runVars, workspaces, tokens, nextId, procs, oauth>>

OAuthCallback ==
    /\ clock < MaxClock
    /\ \E provider \in CallbackProviders, code \in CallbackCodes,
          error \in CallbackErrors, team \in TeamIds :
          LET res == CallbackRoute(provider, code, error, team, tokens, workspaces,
                                   nextId, clock + 1)
          IN  /\ tokens' = res.table
              /\ nextId' = Fresh1(tokens, res.table)
              /\ oauth' = [provider |-> provider, code |-> code, error |-> error,
                           team |-> team, status |-> res.status, success |-> res.success]
              /\ last' = Call("oauthCallback", [provider |-> provider],
                              Outcome(Null, {}, {}))
    /\ clock' = clock + 1
    /\ UNCHANGED <<webhookVars, runVars, workspaces, sessions, messages, procs>>

NextStore ==
    \/ UpsertWorkspace
    \/ UpsertMinnoSession
    \/ UpdateSessionStatus
    \/ AddMessage
    \/ StoreOAuthToken
    \/ GetOAuthToken
    \/ InsertSeedToken
    \/ DeleteWorkspace
    \/ DeleteSession
    \/ OAuthCallback

SpecStore == InitStore /\ [][NextStore]_vars

----------------------------------------------------------------------------
(* Properties of the session store *)

\* the step is a call of op
Called(op) == clock' = clock + 1 /\ last'.op = op

WorkspacesOf(rows, slackTeamId) == { w \in rows : w.slackTeamId = slackTeamId }

SessionsOf(rows, channel, thread) ==
    { r \in rows : r.slackChannelId = channel /\ r.slackThreadTs = thread }

\* C14: no two workspace rows ever share a team id; after upsert-workspace
\* there is exactly one row for the team id, and when the team had a row
\* before, the row keeps its id and created_at and its updated_at is strictly
\* later than before
C14_OneWorkspacePerTeam ==
    /\ [](\A w1, w2 \in workspaces : w1.slackTeamId = w2.slackTeamId => w1 = w2)
    /\ [][ Called("upsertWorkspace") =>
             LET before == WorkspacesOf(workspaces, last'.args.slackTeamId)
                 after == WorkspacesOf(workspaces', last'.args.slackTeamId)
             IN  /\ Cardinality(after) = 1
                 /\ last'.error = Null
                 /\ \A b \in before : \A a \in after :
                       /\ a.id = b.id
                       /\ a.createdAt = b.createdAt
                       /\ a.updatedAt > b.updatedAt ]_vars

\* upsert-workspace has been called a second time with the team id and the
\* name of the seeded workspace
C14_Witness ==
    /\ last.op = "upsertWorkspace"
    /\ last.args.slackTeamId = SeedWorkspace.slackTeamId
    /\ last.args.slackTeamName = SeedWorkspace.slackTeamName
    /\ \E w \in workspaces :
          /\ w.id = SeedWorkspace.id
          /\ w.createdAt = SeedWorkspace.createdAt
          /\ w.updatedAt = clock
          /\ clock > SeedWorkspace.updatedAt
    /\ Cardinality(workspaces) = 1

\* C15: upsert-workspace on an existing team id without a linked id leaves
\* the stored linked id as it was and sets the name to the supplied name
C15_NullLinkKeepsLink ==
    [][ (/\ Called("upsertWorkspace")
         /\ last'.args.notionWorkspaceId = Null)
        => \A b \in WorkspacesOf(workspaces, last'.args.slackTeamId) :
              \E a \in workspaces' :
                 /\ a.id = b.id
                 /\ a.notionWorkspaceId = b.notionWorkspaceId
                 /\ a.slackTeamName = last'.args.slackTeamName ]_vars

\* the seeded workspace, which has a link, was upserted without one and with
\* another name: it has the new name and still has the link
C15_Witness ==
    /\ last.op = "upsertWorkspace"
    /\ last.args.notionWorkspaceId = Null
    /\ last.args.slackTeamId = SeedWorkspace.slackTeamId
    /\ last.args.slackTeamName # SeedWorkspace.slackTeamName
    /\ \E w \in workspaces :
          /\ w.id = SeedWorkspace.id
          /\ w.slackTeamName = last.args.slackTeamName
          /\ w.notionWorkspaceId = SeedWorkspace.notionWorkspaceId
          /\ w.notionWorkspaceId # Null

\* C11: no two session rows ever share (channel, thread); an upsert-session
\* on an existing key keeps the stored project id, task id and context that
\* the call omits, and a context it supplies becomes the stored context
C11_UpsertSessionMerges ==
    /\ [](\A r1, r2 \in sessions :
             (r1.slackChannelId = r2.slackChannelId /\ r1.slackThreadTs = r2.slackThreadTs)
             => r1 = r2)
    /\ [][ Called("upsertMinnoSession") =>
             LET args == last'.args
                 data == args.data
             IN  \A b \in SessionsOf(sessions, args.slackChannelId, args.slackThreadTs) :
                    \E a \in sessions' :
                       /\ a.id = b.id
                       /\ data.notionProjectId = Null => a.notionProjectId = b.notionProjectId
                       /\ data.notionTaskId = Null => a.notionTaskId = b.notionTaskId
                       /\ data.context = Null => a.context = b.context
                       /\ data.context # Null => a.context = data.context ]_vars

\* the seeded session, which has a project, a task and a context, was upserted
\* with none of them and has kept all three
C11_Witness ==
    /\ last.op = "upsertMinnoSession"
    /\ last.error = Null
    /\ last.args.data.notionProjectId = Null
    /\ last.args.data.notionTaskId = Null
    /\ last.args.data.context = Null
    /\ \E r \in sessions :
          /\ r.id = SeedSession.id
          /\ r.updatedAt = clock
          /\ r.notionProjectId = SeedSession.notionProjectId
          /\ r.notionTaskId = SeedSession.notionTaskId
          /\ r.context = SeedSession.context
    /\ Cardinality(sessions) = 1

\* C12: an upsert-session on an existing key that supplies no status leaves
\* the stored status unchanged, and one that supplies a status stores it
C12_StatusOverwriteIfPresent ==
    [][ Called("upsertMinnoSession") =>
          LET args == last'.args
          IN  \A b \in SessionsOf(sessions, args.slackChannelId, args.slackThreadTs) :
                 \E a \in sessions' :
                    /\ a.id = b.id
                    /\ a.status = IF args.data.status = Null THEN b.status
                                  ELSE args.data.status ]_vars

\* C16: no step moves a session out of completed, failed or archived: a
\* session whose status is not active keeps its status
C16_TerminalStatusIsFinal ==
    [][ \A b \in sessions : \A a \in sessions' :
           (a.id = b.id /\ b.status # "active") => a.status = b.status ]_vars

\* C17: update-session-status with an id no session has fails with 'Session
\* not found' and leaves the sessions as they were; with the id of a session
\* it succeeds, that session gets the status, and every other session is as
\* it was
C17_UpdateStatusOneOrNotFound ==
    [][ Called("updateSessionStatus") =>
          LET id == last'.args.sessionId
          IN  IF \E r \in sessions : r.id = id
              THEN /\ last'.error = Null
                   /\ \A b \in sessions :
                         IF b.id = id
                         THEN \E a \in sessions' :
                                 a = [b EXCEPT !.status = last'.args.status,
                                               !.updatedAt = a.updatedAt]
                         ELSE b \in sessions'
                   /\ Cardinality(sessions') = Cardinality(sessions)
              ELSE /\ last'.error = "Session not found"
                   /\ sessions' = sessions ]_vars

\* with two sessions stored, update-session-status has set the status of one
\* of them, and the other is as it was created
C17_Witness ==
    /\ last.op = "updateSessionStatus"
    /\ last.error = Null
    /\ Cardinality(sessions) = 2
    /\ \E r \in sessions :
          /\ r.id = last.args.sessionId
          /\ r.status = last.args.status
          /\ r.updatedAt = clock
    /\ \E r \in sessions :
          /\ r.id # last.args.sessionId
          /\ r.status # last.args.status
          /\ r.updatedAt < clock

\* C18: every token and every session references a stored workspace and every
\* message a stored session; after the delete of a workspace no token, session
\* or message of it is left, and after the delete of a session no message of it
C18_NoOrphans ==
    /\ [](/\ \A k \in tokens : \E w \in workspaces : w.id = k.workspace_id
          /\ \A r \in sessions : \E w \in workspaces : w.id = r.workspaceId
          /\ \A m \in messages : \E r \in sessions : r.id = m.sessionId)
    /\ [][ Called("deleteWorkspace") =>
             LET id == last'.args.id
                 gone == { r \in sessions : r.workspaceId = id }
             IN  /\ \A w \in workspaces' : w.id # id
                 /\ \A k \in tokens' : k.workspace_id # id
                 /\ \A r \in sessions' : r.workspaceId # id
                 /\ \A m \in messages' : \A r \in gone : m.sessionId # r.id ]_vars
    /\ [][ Called("deleteSession") =>
             /\ \A r \in sessions' : r.id # last'.args.id
             /\ \A m \in messages' : m.sessionId # last'.args.id ]_vars

\* the seeded workspace, which had a token, a session and a message, was
\* deleted, and nothing of it is left
C18_Witness ==
    /\ last.op = "deleteWorkspace"
    /\ last.args.id = SeedWorkspace.id
    /\ nextId = SeedNextId
    /\ workspaces = {} /\ tokens = {} /\ sessions = {} /\ messages = {}

\* C19: no two token rows share (workspace_id, provider), and after
\* upsert-oauth-token for a stored workspace get-oauth-token for the pair
\* returns the credential fields of the token just upserted
C19_GetReturnsLastStored ==
    /\ [](\A k1, k2 \in tokens :
             (k1.workspace_id = k2.workspace_id /\ k1.provider = k2.provider) => k1 = k2)
    /\ [][ (/\ Called("storeOAuthToken")
            /\ \E w \in workspaces : w.id = last'.args.workspaceId)
           => LET token == last'.args.token
                  got == GetOAuthTokenResult(tokens', last'.args.provider,
                                             last'.args.workspaceId)
              IN  /\ got.found
                  /\ got.accessToken = token.accessToken
                  /\ got.refreshToken = OrNull(token.refreshToken)
                  /\ got.expiresAt = OrNull(token.expiresAt)
                  /\ got.scope = OrNull(token.scope)
                  /\ got.botUserId = OrNull(token.botUserId)
                  /\ got.teamId = OrNull(token.teamId) ]_vars

\* C20: the callback of slack with a code that is exchanged and no error
\* parameter answers 200 with success, and afterwards the workspace of the
\* team is stored and has a slack token
C20_CallbackPersistsToken ==
    (/\ oauth.provider = "slack"
     /\ oauth.code = "good-code"
     /\ oauth.error = Undefined)
    => /\ oauth.status = 200
       /\ oauth.success
       /\ \E w \in workspaces :
             /\ w.slackTeamId = oauth.team
             /\ GetOAuthTokenResult(tokens, "slack", w.id).found

----------------------------------------------------------------------------
(* Concurrent calls of upsertMinnoSession for one (channel, thread).  A call
   builds its parameters, pool.query sends the one statement, and the promise
   resolves.  PostgreSQL executes INSERT ... ON CONFLICT DO UPDATE as one
   atomic step with respect to the unique index: of two statements for the
   same key the second sees the row of the first. *)

RaceProcs == 2
RaceThread == "t1"

IdleProc == [pc |-> "idle", data |-> NoData, at |-> 0, error |-> Null]

InitRace ==
    /\ pc = "idle" /\ req = NoRequest /\ reqBody = Undefined /\ now = 1000 /\ trace = <<>>
    /\ clock = 0 /\ oauth = NoOAuth /\ NoRuns
    /\ workspaces = {SeedWorkspace} /\ tokens = {SeedToken}
    /\ sessions \in {{}, {SeedSession}}
    /\ messages = MessagesOf({SeedMessage}, sessions)
    /\ nextId = SeedNextId
    /\ last = [NoCall EXCEPT !.op = "race", !.rows = sessions]
    /\ procs = [i \in 1..RaceProcs |-> IdleProc]

\* upsertMinnoSession is called: the parameters are fixed
RaceCall(i) ==
    /\ procs[i].pc = "idle"
    /\ \E data \in SessionData :
          procs' = [procs EXCEPT ![i] = [@ EXCEPT !.pc = "called", !.data = data]]
    /\ UNCHANGED <<webhookVars, runVars, workspaces, tokens, sessions, messages, clock, nextId, last, oauth>>

\* the statement of the call is executed
RaceQuery(i) ==
    /\ procs[i].pc = "called"
    /\ LET data == procs[i].data
           out == UpsertSessionStatement(sessions, workspaces, nextId, clock + 1,
                      SeedWorkspace.id, ChannelId, RaceThread, data.notionProjectId,
                      data.notionTaskId, ContextParam(data), StatusParam(data))
       IN  /\ sessions' = out.table
           /\ nextId' = Fresh1(sessions, out.table)
           /\ procs' = [procs EXCEPT ![i] = [@ EXCEPT !.pc = "queried", !.at = clock + 1,
                                                      !.error = out.error]]
    /\ clock' = clock + 1
    /\ UNCHANGED <<webhookVars, runVars, workspaces, tokens, messages, last, oauth>>

\* the promise of the call settles
RaceReturn(i) ==
    /\ procs[i].pc = "queried"
    /\ procs' = [procs EXCEPT ![i] = [@ EXCEPT !.pc = "done"]]
    /\ UNCHANGED <<webhookVars, runVars, workspaces, tokens, sessions, messages, clock, nextId, last, oauth>>

NextRace ==
    \/ \E i \in 1..RaceProcs : RaceCall(i)
    \/ \E i \in 1..RaceProcs : RaceQuery(i)
    \/ \E i \in 1..RaceProcs : RaceReturn(i)

SpecRace == InitRace /\ [][NextRace]_vars

\* the calls whose statement has been executed
Executed == { i \in DOMAIN procs : procs[i].at > 0 }

\* the executed calls that supplied field f
Suppliers(f) == { i \in Executed : procs[i].data[f] # Null }

\* what field f holds under last-writer-wins: the value of the supplier that
\* executed last, and without a supplier the value stored before the calls
\* (null when no row was stored)
LastWriterValue(f) ==
    IF Suppliers(f) # {}
    THEN LET i == CHOOSE j \in Suppliers(f) : \A k \in Suppliers(f) : procs[k].at <= procs[j].at
         IN  procs[i].data[f]
    ELSE IF last.rows = {} THEN Null
    ELSE (CHOOSE r \in last.rows : TRUE)[f]

\* C13: of concurrent upsert-session calls for one (channel, thread) none
\* fails, and once one of them has executed there is exactly one row for the
\* key, whose project id, task id and context are those of the last writer
\* that supplied them
C13_ConcurrentUpsertsLastWriterWins ==
    /\ \A i \in DOMAIN procs : procs[i].error = Null
    /\ Executed # {} =>
          /\ Cardinality(SessionsOf(sessions, ChannelId, RaceThread)) = 1
          /\ \A r \in SessionsOf(sessions, ChannelId, RaceThread) :
                /\ r.notionProjectId = LastWriterValue("notionProjectId")
                /\ r.notionTaskId = LastWriterValue("notionTaskId")
                /\ r.context = LastWriterValue("context")

\* two calls have returned, the second called executed first, both supplied a
\* context, and only the second supplied a task id
C13_Witness ==
    /\ last.op = "race"
    /\ \A i \in DOMAIN procs : procs[i].pc = "done"
    /\ procs[2].at < procs[1].at
    /\ procs[1].data.context # Null
    /\ procs[2].data.context # Null
    /\ procs[1].data.context # procs[2].data.context
    /\ procs[1].data.notionTaskId = Null
    /\ procs[2].data.notionTaskId # Null
    /\ \E r \in sessions :
          /\ r.context = procs[1].data.context
          /\ r.notionTaskId = procs[2].data.notionTaskId

----------------------------------------------------------------------------
(* slackVerify: one outcome per request *)

\* what the step of slackVerify added to the trace
VerifyEffects == SubSeq(trace', Len(trace) + 1, Len(trace'))

\* C27: slackVerify does exactly one thing per request: it calls next() and
\* sends nothing, or it sends one response, 400 or 401, and does not call
\* next(); also when the comparison throws
C27_ExactlyOneOutcome ==
    [][ pc = "slackVerify" =>
          /\ Len(VerifyEffects) = 1
          /\ \/ VerifyEffects[1] = CallNext
             \/ /\ IsResponse(VerifyEffects[1])
                /\ VerifyEffects[1].status \in {400, 401} ]_vars

\* a fresh request whose signature has the wrong length, so that the
\* comparison throws, got one 401 and next() was not called
C27_Witness ==
    /\ pc = "done"
    /\ Fresh
    /\ req.signature.len # MySignature(req.timestamp, reqBody).len
    /\ req.signature.body # JSONStringify(reqBody)
    /\ Len(trace) = 1
    /\ Statuses(trace) = {401}
    /\ ~Verified

\* C28: next() is called only when the timestamp header is a number within
\* 300 seconds of the current time, and a timestamp header that is present
\* but not a number is answered 400 and goes no further
C28_NonNumericStampRejected ==
    VerifyRan =>
        /\ Verified => Fresh
        /\ (req.timestamp.k = "text" /\ ~Falsy(req.signature))
              => (Statuses(trace) = {400} /\ ~Verified)

----------------------------------------------------------------------------
(* The event helpers as operations on a given envelope *)

EventTypes == {"app_mention", "message", "reaction_added", "channel_created", Undefined}

\* an event that has every field of the three schemas
FullEvent(t, ts, thread) ==
    [NoEvent EXCEPT !.type = t, !.user = "U1", !.text = "hello", !.ts = ts,
                    !.channel = "C1", !.event_ts = ts, !.thread_ts = thread,
                    !.reaction = "thumbsup", !.item = "object"]

ParseEvents ==
    { FullEvent(t, ts, th) : t \in EventTypes, ts \in {"t1", "t2"}, th \in {Undefined, "t1", "t2"} }
    \cup { [FullEvent("message", "t1", Undefined) EXCEPT !.text = Undefined],
           [FullEvent("app_mention", "t1", Undefined) EXCEPT !.user = Undefined],
           [FullEvent("reaction_added", "t1", Undefined) EXCEPT !.item = Undefined] }

ParseEnvelopes ==
    { Envelope(t, ev) : t \in {"event_callback", "url_verification", Undefined},
                        ev \in ParseEvents }
    \cup { [Envelope("event_callback", ev) EXCEPT !.team_id = Undefined] : ev \in ParseEvents }

\* a thread test that looks at the presence of thread_ts only
IsThreadMessageAnyThread(event) == event.thread_ts # Undefined

\* isThreadMessage
IsThreadMessage(event) == event.thread_ts # Undefined /\ event.thread_ts # event.ts

InitParse ==
    /\ pc = "idle" /\ req = NoRequest /\ now = 0 /\ trace = <<>>
    /\ reqBody \in ParseEnvelopes
    /\ sessions = {} /\ messages = {} /\ workspaces = {} /\ tokens = {}
    /\ clock = 0 /\ nextId = 1 /\ last = NoCall /\ procs = NoProcs /\ oauth = NoOAuth /\ NoRuns

\* parseSlackEventWrapper(body)
ParseCall ==
    /\ last.op = "none"
    /\ LET result == ParseSlackEventWrapper(reqBody)
       IN  last' = [op |-> "parseSlackEventWrapper", args |-> <<>>,
                    error |-> IF result.ok THEN Null ELSE "ZodError",
                    rows |-> {result.value}]
    /\ UNCHANGED <<pc, req, reqBody, now, trace, runVars, sessions, messages, workspaces, tokens,
                   clock, nextId, procs, oauth>>

\* isThreadMessage(event), for an event the type checker accepts as a message
IsThreadMessageCall ==
    /\ last.op = "none"
    /\ MessageEventValid(reqBody.event)
    /\ last' = [op |-> "isThreadMessage", args |-> <<>>, error |-> Null,
                rows |-> {IsThreadMessage(reqBody.event)}]
    /\ UNCHANGED <<pc, req, reqBody, now, trace, runVars, sessions, messages, workspaces, tokens,
                   clock, nextId, procs, oauth>>

NextParse ==
    \/ ParseCall
    \/ IsThreadMessageCall

SpecParse == InitParse /\ [][NextParse]_vars

RecognizedEventTypes == {"app_mention", "message", "reaction_added"}

\* C23: parseSlackEventWrapper raises a validation error and returns nothing
\* when the nested event's type is not app_mention, message or
\* reaction_added or the envelope's type is not event_callback; every
\* envelope it returns has an event of one of the three types
C23_ParseFailsClosed ==
    last.op = "parseSlackEventWrapper" =>
        /\ (reqBody.event.type \notin RecognizedEventTypes \/ reqBody.type # "event_callback")
              => (last.error = "ZodError" /\ last.rows = {EmptyObject})
        /\ last.error = Null =>
              \A v \in last.rows : v.event.type \in RecognizedEventTypes /\ v.type = "event_callback"

\* an envelope that is complete except that its event is a channel_created
\* was refused
C23_Witness ==
    /\ last.op = "parseSlackEventWrapper"
    /\ last.error = "ZodError"
    /\ reqBody = Envelope("event_callback", FullEvent("channel_created", "t1", Undefined))

\* C26: isThreadMessage is true exactly when thread_ts is present and differs
\* from ts: it is false for the thread root (thread_ts = ts) and false when
\* thread_ts is absent
C26_ThreadReplyOnlyWhenTsDiffers ==
    last.op = "isThreadMessage" =>
        LET ev == reqBody.event
        IN  /\ ev.thread_ts = Undefined => last.rows = {FALSE}
            /\ ev.thread_ts = ev.ts => last.rows = {FALSE}
            /\ (ev.thread_ts # Undefined /\ ev.thread_ts # ev.ts) => last.rows = {TRUE}

\* isThreadMessage was false for a thread root
C26_Witness ==
    /\ last.op = "isThreadMessage"
    /\ reqBody.event.thread_ts = reqBody.event.ts
    /\ reqBody.event.thread_ts # Undefined
    /\ last.rows = {FALSE}

----------------------------------------------------------------------------
(* Ownership of a session *)

\* C29: the session upsertMinnoSession returns belongs to the workspace of
\* the call, and the call leaves every session of another workspace as it
\* was, also when that session has the same (channel, thread)
C29_UpsertStaysInWorkspace ==
    [][ (Called("upsertMinnoSession") /\ last'.error = Null) =>
          /\ \A r \in last'.rows : r.workspaceId = last'.args.workspaceId
          /\ \A b \in sessions : b.workspaceId # last'.args.workspaceId => b \in sessions' ]_vars

----------------------------------------------------------------------------
(* Messages of a session: concurrent addMessage calls and the two listings.
   The timestamp of a message is CURRENT_TIMESTAMP of its INSERT.  A call
   made after another has returned sees a later time; calls in progress at
   the same time may see the same time.  ORDER BY timestamp leaves the order
   of rows with equal timestamps open. *)

RecentLimits == {1, 2, 3}

Reverse(q) == [i \in 1..Len(q) |-> q[Len(q) + 1 - i]]

\* the first n elements of q
Take(q, n) == SubSeq(q, 1, IF n < Len(q) THEN n ELSE Len(q))

\* the last n elements of q
LastN(q, n) == SubSeq(q, IF n < Len(q) THEN Len(q) - n + 1 ELSE 1, Len(q))

\* the sequences that list the rows of S once each
Listings(S) ==
    { q \in [1..Cardinality(S) -> S] : \A i, j \in 1..Cardinality(S) : i # j => q[i] # q[j] }

\* SELECT * FROM conversation_messages WHERE session_id = $1 ORDER BY timestamp ASC
GetSessionMessagesResults(rows, sessionId) ==
    { q \in Listings({ m \in rows : m.sessionId = sessionId }) :
        \A i \in 1..(Len(q) - 1) : q[i].timestamp <= q[i + 1].timestamp }

\* the rows of ... ORDER BY timestamp DESC LIMIT $2, reversed
GetRecentMessagesResults(rows, sessionId, limit) ==
    { Reverse(Take(q, limit)) :
        q \in { d \in Listings({ m \in rows : m.sessionId = sessionId }) :
                  \A i \in 1..(Len(d) - 1) : d[i].timestamp >= d[i + 1].timestamp } }

InitMessages ==
    /\ pc = "idle" /\ req = NoRequest /\ reqBody = EmptyObject /\ now = 0 /\ trace = <<>>
    /\ oauth = NoOAuth /\ NoRuns
    /\ workspaces = {SeedWorkspace} /\ tokens = {SeedToken}
    /\ sessions = {SeedSession} /\ messages = {SeedMessage}
    /\ nextId = SeedNextId
    /\ clock = 1
    /\ last = NoCall
    /\ procs = [i \in 1..RaceProcs |-> IdleProc]

\* addMessage is called
MessageCall(i) ==
    /\ procs[i].pc = "idle"
    /\ procs' = [procs EXCEPT ![i] = [@ EXCEPT !.pc = "called"]]
    /\ UNCHANGED <<webhookVars, runVars, workspaces, tokens, sessions, messages, clock, nextId, last, oauth>>

\* the INSERT of the call is executed
MessageInsert(i) ==
    /\ procs[i].pc = "called"
    /\ LET out == InsertMessageStatement(messages, sessions, nextId, clock,
                                         SeedSession.id, "user", "hello", Null, Null)
       IN  /\ messages' = out.table
           /\ nextId' = Fresh1(messages, out.table)
           /\ procs' = [procs EXCEPT ![i] = [@ EXCEPT !.pc = "queried", !.at = clock,
                                                      !.error = out.error]]
    /\ UNCHANGED <<webhookVars, runVars, workspaces, tokens, sessions, clock, last, oauth>>

\* the call returns; what is called afterwards sees a later time
MessageReturn(i) ==
    /\ procs[i].pc = "queried"
    /\ procs' = [procs EXCEPT ![i] = [@ EXCEPT !.pc = "done"]]
    /\ clock' = clock + 1
    /\ UNCHANGED <<webhookVars, runVars, workspaces, tokens, sessions, messages, nextId, last, oauth>>

\* getSessionMessages and getRecentMessages on the same table
ReadMessages ==
    /\ \E limit \in RecentLimits :
       \E all \in GetSessionMessagesResults(messages, SeedSession.id) :
       \E recent \in GetRecentMessagesResults(messages, SeedSession.id, limit) :
          last' = [op |-> "readMessages", args |-> [limit |-> limit], error |-> Null,
                   rows |-> [all |-> all, recent |-> recent]]
    /\ UNCHANGED <<webhookVars, runVars, workspaces, tokens, sessions, messages, clock, nextId, procs, oauth>>

NextMessages ==
    \/ \E i \in 1..RaceProcs : MessageCall(i)
    \/ \E i \in 1..RaceProcs : MessageInsert(i)
    \/ \E i \in 1..RaceProcs : MessageReturn(i)
    \/ ReadMessages

SpecMessages == InitMessages /\ [][NextMessages]_vars

\* C25: getRecentMessages(session, N) returns the last min(N, count) elements
\* of getSessionMessages(session), in ascending order of timestamp; both
\* hold messages of the session only; no step changes or removes a message
C25_RecentIsTailOfAll ==
    /\ [](last.op = "readMessages" =>
            /\ last.rows.recent = LastN(last.rows.all, last.args.limit)
            /\ \A i \in 1..Len(last.rows.all) : last.rows.all[i].sessionId = SeedSession.id
            /\ \A i \in 1..(Len(last.rows.recent) - 1) :
                  last.rows.recent[i].timestamp <= last.rows.recent[i + 1].timestamp)
    /\ [][messages \subseteq messages']_vars

----------------------------------------------------------------------------
(* The pool and the migration runner.  Every method of SessionService takes
   a client from the pool, works on it inside try, and releases it in
   finally.  runMigrations runs each pending file between BEGIN and COMMIT on
   that client.  Statements of a client outside a transaction are committed
   one by one; statements inside one take effect at COMMIT. *)

Runners == {1, 2}

MaxRuns == 3

NoFile == [name |-> "", n |-> 0, sql |-> FALSE, digits |-> FALSE]

\* the transaction of a client: the migrations whose statements ran in it and
\* the names inserted into the migrations table in it
NoTransaction == [open |-> FALSE, changes |-> {}, records |-> {}]

IdleRunner ==
    [op |-> "none", pc |-> "idle", args |-> <<>>, todo |-> <<>>, cur |-> NoFile,
     txn |-> NoTransaction, error |-> Null, client |-> FALSE, released |-> 0, runs |-> 0]

OffRunner == [IdleRunner EXCEPT !.pc = "off"]

\* readdirSync(dir).filter(f => f.endsWith('.sql') && /^\d{3}_/.test(f)).sort()
GetMigrationFiles(dir) ==
    LET kept == { f \in dir : f.sql /\ f.digits }
    IN  CHOOSE q \in Listings(kept) : \A i, j \in 1..Len(q) : i < j => q[i].n < q[j].n

AppliedNames(rows) == { r.name : r \in rows }

\* the files the loop runs whatever the migrations table says
PendingAll(files, appliedNames) == files

\* the files the loop runs: those with !appliedNames.has(file)
PendingMigrations(files, appliedNames) ==
    SelectSeq(files, LAMBDA f : f.name \notin appliedNames)

\* BEGIN that opens no transaction
BeginNothing(txn) == txn

\* BEGIN
BeginStatement(txn) == [txn EXCEPT !.open = TRUE]

\* an insert into migrations that no constraint stops
RecordWithoutUnique(rows, name) == Null

\* INSERT INTO migrations (name) VALUES ($1): name is UNIQUE
RecordMigration(rows, name) ==
    IF name \in AppliedNames(rows) THEN "unique_violation" ELSE Null

\* the rows of migrations with the names added, ids from the sequence
InsertNames(rows, names) ==
    rows \cup { [id |-> Cardinality(rows) + 1 +
                        Cardinality({ m \in names : \E f, g \in MigrationsDir :
                                                      f.name = m /\ g.name = name /\ f.n < g.n }),
                 name |-> name] : name \in names }

\* the commit counts with one more for each of the names
CountChanges(counts, names) ==
    [name \in MigrationNames |-> IF name \in names THEN counts[name] + 1 ELSE counts[name]]

\* finally that releases the client only when the call succeeded
ReleaseOnSuccess(count, error) == IF error = Null THEN count - 1 ELSE count

\* finally { client.release() }
ReleaseClient(count, error) == count - 1

SetRunner(i, r) == runners' = [runners EXCEPT ![i] = r]

\* where the loop goes with what is left to run: the next file, or finally
Continue(r, todo) ==
    IF todo = <<>>
    THEN [r EXCEPT !.todo = todo, !.cur = NoFile, !.pc = "finally"]
    ELSE [r EXCEPT !.todo = Tail(todo), !.cur = Head(todo), !.pc = "begin"]

\* an error thrown inside the outer try: logged, thrown again, after finally
Throw(r, error) == [r EXCEPT !.error = error, !.pc = "finally"]

\* a process and a database as the seed script leaves it; only the first
\* process makes calls
InitMigrate ==
    /\ pc = "idle" /\ req = NoRequest /\ reqBody = EmptyObject /\ now = 0 /\ trace = <<>>
    /\ oauth = NoOAuth
    /\ workspaces = {SeedWorkspace} /\ tokens = {SeedToken}
    /\ sessions = {SeedSession} /\ messages = {SeedMessage}
    /\ nextId = SeedNextId
    /\ clock = 1
    /\ last = NoCall
    /\ procs = NoProcs
    /\ checkedOut = 0
    /\ migrations = {}
    /\ applied = [name \in MigrationNames |-> 0]
    /\ runners = [i \in Runners |-> IF i = 1 THEN IdleRunner ELSE OffRunner]

\* the same with every process making calls
InitPool ==
    /\ pc = "idle" /\ req = NoRequest /\ reqBody = EmptyObject /\ now = 0 /\ trace = <<>>
    /\ oauth = NoOAuth
    /\ workspaces = {SeedWorkspace} /\ tokens = {SeedToken}
    /\ sessions = {SeedSession} /\ messages = {SeedMessage}
    /\ nextId = SeedNextId
    /\ clock = 1
    /\ last = NoCall
    /\ procs = NoProcs
    /\ checkedOut = 0
    /\ migrations = {}
    /\ applied = [name \in MigrationNames |-> 0]
    /\ runners = [i \in Runners |-> IdleRunner]

poolRest == <<webhookVars, workspaces, tokens, messages, nextId, last, procs, oauth>>

\* runMigrations is called, for the first time or after an earlier call ended
MigrateCall(i) ==
    /\ runners[i].pc \in {"idle", "done"}
    /\ runners[i].runs < MaxRuns
    /\ SetRunner(i, [IdleRunner EXCEPT !.op = "runMigrations", !.pc = "connect",
                                       !.runs = runners[i].runs + 1])
    /\ UNCHANGED <<poolRest, sessions, clock, checkedOut, migrations, applied>>

\* const client = await this.pool.connect()
PoolConnect(i) ==
    /\ runners[i].pc = "connect"
    /\ \/ /\ checkedOut' = checkedOut + 1
          /\ SetRunner(i, [runners[i] EXCEPT !.client = TRUE,
                             !.pc = IF runners[i].op = "runMigrations" THEN "ensure" ELSE "query"])
       \/ /\ SetRunner(i, [runners[i] EXCEPT !.error = "connect_failed", !.pc = "done"])
          /\ UNCHANGED checkedOut
    /\ UNCHANGED <<poolRest, sessions, clock, migrations, applied>>

\* CREATE TABLE IF NOT EXISTS migrations
EnsureMigrationsTable(i) ==
    /\ runners[i].pc = "ensure"
    /\ \/ SetRunner(i, [runners[i] EXCEPT !.pc = "select"])
       \/ SetRunner(i, Throw(runners[i], "query_failed"))
    /\ UNCHANGED <<poolRest, sessions, clock, checkedOut, migrations, applied>>

\* SELECT name FROM migrations, the directory listing, and the first file
SelectApplied(i) ==
    /\ runners[i].pc = "select"
    /\ \/ SetRunner(i, Continue(runners[i],
                                PendingMigrations(GetMigrationFiles(MigrationsDir),
                                                  AppliedNames(migrations))))
       \/ SetRunner(i, Throw(runners[i], "query_failed"))
    /\ UNCHANGED <<poolRest, sessions, clock, checkedOut, migrations, applied>>

\* await client.query('BEGIN'), outside the inner try
MigrationBegin(i) ==
    /\ runners[i].pc = "begin"
    /\ \/ SetRunner(i, [runners[i] EXCEPT !.txn = BeginStatement(@), !.pc = "exec"])
       \/ SetRunner(i, Throw(runners[i], "query_failed"))
    /\ UNCHANGED <<poolRest, sessions, clock, checkedOut, migrations, applied>>

\* await client.query(migration)
MigrationExec(i) ==
    /\ runners[i].pc = "exec"
    /\ \/ /\ IF runners[i].txn.open
             THEN /\ SetRunner(i, [runners[i] EXCEPT !.txn.changes = @ \cup {runners[i].cur.name},
                                                     !.pc = "record"])
                  /\ UNCHANGED applied
             ELSE /\ SetRunner(i, [runners[i] EXCEPT !.pc = "record"])
                  /\ applied' = CountChanges(applied, {runners[i].cur.name})
       \/ /\ SetRunner(i, [runners[i] EXCEPT !.error = "migration_failed", !.pc = "rollback"])
          /\ UNCHANGED applied
    /\ UNCHANGED <<poolRest, sessions, clock, checkedOut, migrations>>

\* the name is being inserted by another client whose transaction is open
InsertWaits(i) ==
    \E j \in Runners \ {i} : runners[j].txn.open /\ runners[i].cur.name \in runners[j].txn.records

\* await client.query('INSERT INTO migrations (name) VALUES ($1)', [file])
MigrationRecord(i) ==
    /\ runners[i].pc = "record"
    /\ ~InsertWaits(i)
    /\ \/ LET error == RecordMigration(migrations, runners[i].cur.name)
          IN  IF error # Null
              THEN /\ SetRunner(i, [runners[i] EXCEPT !.error = error, !.pc = "rollback"])
                   /\ UNCHANGED migrations
              ELSE IF runners[i].txn.open
              THEN /\ SetRunner(i, [runners[i] EXCEPT !.txn.records = @ \cup {runners[i].cur.name},
                                                      !.pc = "commit"])
                   /\ UNCHANGED migrations
              ELSE /\ SetRunner(i, [runners[i] EXCEPT !.pc = "commit"])
                   /\ migrations' = InsertNames(migrations, {runners[i].cur.name})
       \/ /\ SetRunner(i, [runners[i] EXCEPT !.error = "insert_failed", !.pc = "rollback"])
          /\ UNCHANGED migrations
    /\ UNCHANGED <<poolRest, sessions, clock, checkedOut, applied>>

\* await client.query('COMMIT'), and the next file of the loop
MigrationCommit(i) ==
    /\ runners[i].pc = "commit"
    /\ \/ /\ migrations' = InsertNames(migrations, runners[i].txn.records)
          /\ applied' = CountChanges(applied, runners[i].txn.changes)
          /\ SetRunner(i, Continue([runners[i] EXCEPT !.txn = NoTransaction], runners[i].todo))
       \/ /\ SetRunner(i, [runners[i] EXCEPT !.error = "commit_failed", !.pc = "rollback"])
          /\ UNCHANGED <<migrations, applied>>
    /\ UNCHANGED <<poolRest, sessions, clock, checkedOut>>

\* catch (error) { await client.query('ROLLBACK'); throw error; }  When the
\* ROLLBACK fails its error is the one thrown; the transaction ends with the
\* connection.
MigrationRollback(i) ==
    /\ runners[i].pc = "rollback"
    /\ \E error \in {runners[i].error, "rollback_failed"} :
          SetRunner(i, Throw([runners[i] EXCEPT !.txn = NoTransaction], error))
    /\ UNCHANGED <<poolRest, sessions, clock, checkedOut, migrations, applied>>

\* finally { client.release(); } and the return or throw of the call
Finally(i) ==
    /\ runners[i].pc = "finally"
    /\ checkedOut' = ReleaseClient(checkedOut, runners[i].error)
    /\ SetRunner(i, [runners[i] EXCEPT !.pc = "done",
                        !.client = (checkedOut' = checkedOut),
                        !.released = IF checkedOut' = checkedOut THEN @ ELSE @ + 1])
    /\ UNCHANGED <<poolRest, sessions, clock, migrations, applied>>

NextMigrate ==
    \/ \E i \in Runners : MigrateCall(i)
    \/ \E i \in Runners : PoolConnect(i)
    \/ \E i \in Runners : EnsureMigrationsTable(i)
    \/ \E i \in Runners : SelectApplied(i)
    \/ \E i \in Runners : MigrationBegin(i)
    \/ \E i \in Runners : MigrationExec(i)
    \/ \E i \in Runners : MigrationRecord(i)
    \/ \E i \in Runners : MigrationCommit(i)
    \/ \E i \in Runners : MigrationRollback(i)
    \/ \E i \in Runners : Finally(i)

SpecMigrate == InitMigrate /\ [][NextMigrate]_vars

\* updateSessionStatus is called
StatusCall(i) ==
    /\ runners[i].pc \in {"idle", "done"}
    /\ runners[i].runs < MaxRuns
    /\ \E sessionId \in IdArgs(sessions), status \in {"active", "archived"} :
          SetRunner(i, [IdleRunner EXCEPT !.op = "updateSessionStatus", !.pc = "connect",
                                          !.args = <<sessionId, status>>,
                                          !.runs = runners[i].runs + 1])
    /\ UNCHANGED <<poolRest, sessions, clock, checkedOut, migrations, applied>>

\* the UPDATE of updateSessionStatus, which may fail, and the throw of
\* 'Session not found'
StatusQuery(i) ==
    /\ runners[i].pc = "query"
    /\ \/ LET out == UpdateSessionStatusResult(sessions, clock + 1,
                                               runners[i].args[1], runners[i].args[2])
          IN  /\ sessions' = out.table
              /\ clock' = clock + 1
              /\ SetRunner(i, Throw(runners[i], out.error))
       \/ /\ SetRunner(i, Throw(runners[i], "query_failed"))
          /\ UNCHANGED <<sessions, clock>>
    /\ UNCHANGED <<poolRest, checkedOut, migrations, applied>>

NextPool ==
    \/ NextMigrate
    \/ \E i \in Runners : StatusCall(i)
    \/ \E i \in Runners : StatusQuery(i)

SpecPool == InitPool /\ [][NextPool]_vars

----------------------------------------------------------------------------
(* Properties of the migration runner and of the pool *)

RunnerFailedInUnit(i) ==
    /\ runners[i].op = "runMigrations"
    /\ runners[i].error \in {"migration_failed", "insert_failed", "commit_failed"}
    /\ runners[i].pc \in {"finally", "done"}

\* C21: a migration and the record of its name take effect together or not
\* at all: a name is in the migrations table exactly when the changes of that
\* file are committed, and after a unit failed in the migration, in the
\* insert of the name or in the commit, neither is there
C21_MigrationUnitIsAtomic ==
    /\ \A name \in MigrationNames : name \in AppliedNames(migrations) <=> applied[name] >= 1
    /\ \A i \in Runners :
          RunnerFailedInUnit(i) =>
             /\ runners[i].cur.name \notin AppliedNames(migrations)
             /\ applied[runners[i].cur.name] = 0
             /\ runners[i].txn = NoTransaction

C21_Witness ==
    /\ runners[1].pc = "done" /\ runners[1].error = "insert_failed"
    /\ runners[1].cur.name = "002_add_indexes.sql"
    /\ AppliedNames(migrations) = {"001_initial_schema.sql"}
    /\ applied["002_add_indexes.sql"] = 0

\* the names of the first k migration files
FirstFiles(k) == { GetMigrationFiles(MigrationsDir)[j].name : j \in 1..k }

Executes(i) == runners[i].pc = "exec" /\ runners'[i].pc # "exec"

\* C22: a run executes a file only when its name is not recorded and every
\* earlier file is; no file's changes are committed twice; after a failure
\* the run executes nothing more; the recorded names are the first k names
\* of the sorted list of files
C22_PendingInOrderOnce ==
    /\ [][ \A i \in Runners : Executes(i) =>
              /\ runners[i].cur.name \notin AppliedNames(migrations)
              /\ \A f \in MigrationsDir :
                    (f.sql /\ f.digits /\ f.n < runners[i].cur.n) => f.name \in AppliedNames(migrations)
         ]_vars
    /\ [](\A name \in MigrationNames : applied[name] <= 1)
    /\ [](\A i \in Runners : runners[i].pc \in {"begin", "exec", "record", "commit"}
                               => runners[i].error = Null)
    /\ [](\E k \in 0..Len(GetMigrationFiles(MigrationsDir)) : AppliedNames(migrations) = FirstFiles(k))

C22_Witness ==
    /\ runners[1].runs = 2 /\ runners[1].pc = "done" /\ runners[1].error = Null
    /\ AppliedNames(migrations) = FirstFiles(2)
    /\ \A name \in FirstFiles(2) : applied[name] = 1

\* C30: with runners side by side no name is recorded twice and no file's
\* changes are committed twice; a runner whose insert of the name hits the
\* unique constraint rolls its transaction back and commits nothing of it
C30_ConcurrentRunnersApplyOnce ==
    /\ \A r1, r2 \in migrations : r1.name = r2.name => r1 = r2
    /\ \A name \in MigrationNames : applied[name] <= 1
    /\ \A i \in Runners :
          runners[i].error = "unique_violation" =>
             /\ runners[i].pc \in {"rollback", "finally", "done"}
             /\ runners[i].pc # "rollback" => runners[i].txn = NoTransaction
             /\ applied[runners[i].cur.name] = 1

C30_Witness ==
    \E i \in Runners :
       /\ runners[i].pc = "done" /\ runners[i].error = "unique_violation"
       /\ runners[3 - i].op = "runMigrations" /\ runners[3 - i].runs = 1
       /\ applied[runners[i].cur.name] = 1

InFlight(i) == runners[i].pc \notin {"off", "idle", "done"}

\* C24: a call that got a client releases it once, however it ends; the
\* clients checked out are those of the calls in flight that hold one, and
\* none is checked out when no call is in flight
C24_ClientReleasedOnce ==
    /\ checkedOut = Cardinality({ i \in Runners : runners[i].client })
    /\ checkedOut <= Cardinality({ i \in Runners : InFlight(i) })
    /\ \A i \in Runners :
          /\ runners[i].client => InFlight(i)
          /\ runners[i].pc = "done" =>
                runners[i].released = IF runners[i].error = "connect_failed" THEN 0 ELSE 1
          /\ InFlight(i) => runners[i].released = 0

C24_Witness ==
    /\ checkedOut = 0
    /\ runners[1].pc = "done" /\ runners[1].error = "rollback_failed" /\ runners[1].released = 1
    /\ runners[2].pc = "done" /\ runners[2].error = "Session not found" /\ runners[2].released = 1

====
